---- MODULE Spec2Model ----
(***************************************************************************)
(* Model of src/plot.py: the single-pass pipeline of main()                *)
(*   exists check -> load_data -> column drop -> detect_channels ->        *)
(*   zero-channel check -> build_figure -> write_html -> show              *)
(* together with the pure helpers is_ignored_column and minmax_normalize.  *)
(*                                                                         *)
(* Strings that the code inspects character by character (column names,    *)
(* legend names) are sequences of one-character strings.  Cell values are  *)
(* records: an exact rational number, a missing value (NaN) or text.       *)
(* Floating point is modelled by exact rational arithmetic on finite       *)
(* values; IEEE infinities and overflow are outside the value domain.      *)
(***************************************************************************)
EXTENDS Integers, Sequences, FiniteSets, TLC

VARIABLES
    args,          \* the parsed command line (argparse.Namespace)
    file,          \* what is at args.csv: nothing, an undecodable file, a table
    pc,            \* position of main()
    df,            \* the DataFrame held by main()
    eeg_channels,  \* results of detect_channels
    ecg_channels,
    cm_channel,
    fig,           \* the traces added by build_figure, in order
    stderr,        \* messages printed to sys.stderr, in order
    stdout,        \* messages printed to sys.stdout, in order
    exit_code,     \* the process exit status once pc = "done"
    html_written,  \* fig.write_html has completed
    attempted,     \* the pipeline steps this run has started
    error          \* the condition that ended (or, for the viewer, degraded) the run

vars == <<args, file, pc, df, eeg_channels, ecg_channels, cm_channel, fig,
          stderr, stdout, exit_code, html_written, attempted, error>>

-----------------------------------------------------------------------------
(* Strings as character sequences *)

\* str.startswith
startswith(s, prefix) ==
    /\ Len(s) >= Len(prefix)
    /\ SubSeq(s, 1, Len(prefix)) = prefix

UPPERCASE == <<"A","B","C","D","E","F","G","H","I","J","K","L","M",
               "N","O","P","Q","R","S","T","U","V","W","X","Y","Z">>
LOWERCASE == <<"a","b","c","d","e","f","g","h","i","j","k","l","m",
               "n","o","p","q","r","s","t","u","v","w","x","y","z">>

lower_char(c) ==
    IF \E i \in 1..Len(UPPERCASE) : UPPERCASE[i] = c
    THEN LOWERCASE[CHOOSE i \in 1..Len(UPPERCASE) : UPPERCASE[i] = c]
    ELSE c

\* str.lower
lower(s) == [i \in 1..Len(s) |-> lower_char(s[i])]

\* The elements of a list
Elems(s) == {s[i] : i \in 1..Len(s)}

\* Column names that appear in the source or in the specification's scenarios
TIME == <<"T","i","m","e">>
X1_LEOG == <<"X","1",":","L","E","O","G">>
X2_REOG == <<"X","2",":","R","E","O","G">>
CM == <<"C","M">>
TRIGGER == <<"T","r","i","g","g","e","r">>
X3_AUX == <<"X","3",":","A","u","x">>
X3_AUX2_LOWER == <<"x","3",":","a","u","x","2">>
FZ == <<"F","z">>
CZ == <<"C","z">>

\* The "no channel" value of cm_channel (Python None)
None == <<>>

EEG_CANDIDATES == <<
    <<"F","z">>, <<"C","z">>, <<"P","3">>, <<"C","3">>, <<"F","3">>, <<"F","4">>,
    <<"C","4">>, <<"P","4">>,
    <<"F","p","1">>, <<"F","p","2">>, <<"T","3">>, <<"T","4">>, <<"T","5">>,
    <<"T","6">>, <<"O","1">>, <<"O","2">>,
    <<"F","7">>, <<"F","8">>, <<"A","1">>, <<"A","2">>, <<"P","z">> >>

IGNORE_EXACT == {
    <<"T","r","i","g","g","e","r">>,
    <<"T","i","m","e","_","O","f","f","s","e","t">>,
    <<"A","D","C","_","S","t","a","t","u","s">>,
    <<"A","D","C","_","S","e","q","u","e","n","c","e">>,
    <<"E","v","e","n","t">>,
    <<"C","o","m","m","e","n","t","s">> }

-----------------------------------------------------------------------------
(* Cell values and their arithmetic *)

RECURSIVE GCD(_, _)
GCD(a, b) == IF b = 0 THEN a ELSE GCD(b, a % b)

Abs(x) == IF x < 0 THEN -x ELSE x

\* A finite number n/d in lowest terms, d > 0
Rat(n, d) ==
    LET g == GCD(Abs(n), Abs(d))
        s == IF d < 0 THEN -1 ELSE 1
    IN  [k |-> "num", n |-> s * (n \div g), d |-> s * (d \div g)]

Num(n) == [k |-> "num", n |-> n, d |-> 1]
NaN == [k |-> "nan", n |-> 0, d |-> 1]
Txt == [k |-> "txt", n |-> 0, d |-> 1]

\* pd.isna on a scalar
isna(v) == v.k = "nan"

\* Float arithmetic: a missing operand gives a missing result
fsub(a, b) ==
    IF isna(a) \/ isna(b) THEN NaN ELSE Rat(a.n * b.d - b.n * a.d, a.d * b.d)
fmul(a, b) ==
    IF isna(a) \/ isna(b) THEN NaN ELSE Rat(a.n * b.n, a.d * b.d)
fdiv(a, b) ==
    IF isna(a) \/ isna(b) THEN NaN ELSE Rat(a.n * b.d, a.d * b.n)
fle(a, b) == a.n * b.d <= b.n * a.d

\* Whether a column holds text (pandas then stores it with dtype object)
is_text(series) == \E i \in 1..Len(series) : series[i].k = "txt"

\* The non-missing values of a numeric series
Present(series) == {series[i] : i \in {j \in 1..Len(series) : ~isna(series[j])}}

\* Series.min() and Series.max(): missing values are skipped, and the result
\* is missing when nothing is left
series_min(series) ==
    IF Present(series) = {} THEN NaN
    ELSE CHOOSE m \in Present(series) : \A v \in Present(series) : fle(m, v)
series_max(series) ==
    IF Present(series) = {} THEN NaN
    ELSE CHOOSE m \in Present(series) : \A v \in Present(series) : fle(v, m)

\* series <op> scalar, element by element
series_mul(series, c) == [i \in 1..Len(series) |-> fmul(series[i], c)]
series_sub(series, c) == [i \in 1..Len(series) |-> fsub(series[i], c)]
series_div(series, c) == [i \in 1..Len(series) |-> fdiv(series[i], c)]

-----------------------------------------------------------------------------
(* Pure functions of the program *)

\* Mutant: the result is scaled to [0, 1], the factor 2 and the shift left out
minmax_normalize_unit(series) ==
    LET s_min == series_min(series)
        s_max == series_max(series)
    IN  IF isna(s_min) \/ isna(s_max) \/ s_max = s_min
        THEN series_mul(series, Num(0))
        ELSE series_div(series_sub(series, s_min), fsub(s_max, s_min))

\* minmax_normalize, lines 108-113
minmax_normalize(series) ==
    LET s_min == series_min(series)
        s_max == series_max(series)
    IN  IF isna(s_min) \/ isna(s_max) \/ s_max = s_min
        THEN series_mul(series, Num(0))
        ELSE series_sub(
                 series_div(series_mul(series_sub(series, s_min), Num(2)),
                            fsub(s_max, s_min)),
                 Num(1))

\* Mutant: the X3: prefix is compared case-sensitively only
is_ignored_column_case_sensitive(col) ==
    col \in IGNORE_EXACT \/ startswith(col, <<"X","3",":">>)

\* is_ignored_column, lines 99-105
is_ignored_column(col) ==
    IF col \in IGNORE_EXACT THEN TRUE
    ELSE IF startswith(col, <<"X","3",":">>) \/ startswith(lower(col), <<"x","3",":">>)
         THEN TRUE
         ELSE FALSE

\* rows[start::step] for a 1-based start: the rows at start, start+step, ...
RECURSIVE slice_from(_, _, _)
slice_from(rows, start, step) ==
    IF start > Len(rows) THEN <<>>
    ELSE <<rows[start]>> \o slice_from(rows, start + step, step)

\* Mutant: the slice starts at the stride-th row instead of the first
iloc_stride_late(rows, downsample) == slice_from(rows, downsample, downsample)

\* df.iloc[::downsample, :].reset_index(drop=True): the row label of a kept
\* row is its position in the sequence, so re-indexing needs no further step
iloc_stride(rows, downsample) == slice_from(rows, 1, downsample)

\* load_data after a successful read_csv, lines 71-77 (the caller has checked
\* that the table has a Time column)
load_data(table, downsample) ==
    [columns |-> table.columns,
     rows    |-> IF downsample # 0 /\ downsample > 1
                 THEN iloc_stride(table.rows, downsample)
                 ELSE table.rows]

\* The position of a column in the header
col_index(columns, c) == CHOOSE i \in 1..Len(columns) : columns[i] = c

\* df[c]
column(frame, c) ==
    [i \in 1..Len(frame.rows) |-> frame.rows[i][col_index(frame.columns, c)]]

\* The positions, in order, of the columns that are kept
RECURSIVE kept_positions(_, _)
kept_positions(columns, i) ==
    IF i > Len(columns) THEN <<>>
    ELSE (IF is_ignored_column(columns[i]) THEN <<>> ELSE <<i>>)
         \o kept_positions(columns, i + 1)

\* main, lines 203-205: drop the ignored columns if there are any
drop_ignored(frame) ==
    LET drop_cols == SelectSeq(frame.columns, is_ignored_column)
        keep == kept_positions(frame.columns, 1)
    IN  IF drop_cols # <<>>
        THEN [columns |-> [k \in 1..Len(keep) |-> frame.columns[keep[k]]],
              rows    |-> [i \in 1..Len(frame.rows) |->
                              [k \in 1..Len(keep) |-> frame.rows[i][keep[k]]]]]
        ELSE frame

\* Mutant: the header is filtered by the candidate list, giving header order
detect_eeg_header_order(columns) ==
    LET candidate(c) == c \in Elems(EEG_CANDIDATES)
    IN  SelectSeq(columns, candidate)

\* detect_channels, line 82
detect_eeg(columns) ==
    LET present(c) == c \in Elems(columns)
    IN  SelectSeq(EEG_CANDIDATES, present)

\* detect_channels, lines 85-90
detect_ecg(columns, include_ecg) ==
    IF include_ecg
    THEN (IF X1_LEOG \in Elems(columns) THEN <<X1_LEOG>> ELSE <<>>)
         \o (IF X2_REOG \in Elems(columns) THEN <<X2_REOG>> ELSE <<>>)
    ELSE <<>>

\* detect_channels, lines 92-94
detect_cm(columns, include_cm) ==
    IF include_cm /\ CM \in Elems(columns) THEN CM ELSE None

\* Legend suffixes of build_figure
NORM_SUFFIX == <<" ","(","n","o","r","m",")">>
UV_SUFFIX == <<" ","(","µ","V",")">>

\* build_figure, lines 132-142: one EEG trace
eeg_trace(frame, ch, normalize) ==
    LET y == column(frame, ch)
    IN  [group |-> "eeg", ch |-> ch,
         name  |-> IF normalize THEN ch \o NORM_SUFFIX ELSE ch,
         y     |-> IF normalize THEN minmax_normalize(y) ELSE y]

\* Mutant: the ECG column is used without the conversion to µV
ecg_trace_unconverted(frame, ch, normalize) ==
    LET y == column(frame, ch)
    IN  [group |-> "ecg", ch |-> ch,
         name  |-> IF normalize THEN ch \o NORM_SUFFIX ELSE ch \o UV_SUFFIX,
         y     |-> IF normalize THEN minmax_normalize(y) ELSE y]

\* build_figure, lines 145-155: one ECG trace, converted from mV to µV
ecg_trace(frame, ch, normalize) ==
    LET y == series_mul(column(frame, ch), Num(1000))
    IN  [group |-> "ecg", ch |-> ch,
         name  |-> IF normalize THEN ch \o NORM_SUFFIX ELSE ch \o UV_SUFFIX,
         y     |-> IF normalize THEN minmax_normalize(y) ELSE y]

\* build_figure, lines 158-168: the CM trace
cm_trace(frame, ch, normalize) ==
    LET y == column(frame, ch)
    IN  [group |-> "cm", ch |-> ch,
         name  |-> IF normalize THEN ch \o NORM_SUFFIX ELSE ch,
         y     |-> IF normalize THEN minmax_normalize(y) ELSE y]

\* build_figure: the traces in the order they are added
build_figure(frame, eeg, ecg, cm, normalize) ==
    [i \in 1..Len(eeg) |-> eeg_trace(frame, eeg[i], normalize)]
    \o [i \in 1..Len(ecg) |-> ecg_trace(frame, ecg[i], normalize)]
    \o (IF cm # None THEN <<cm_trace(frame, cm, normalize)>> ELSE <<>>)

\* build_figure raises TypeError when arithmetic meets a text column:
\* df[ch] * 1000.0 for an ECG channel, minmax_normalize for any channel
build_raises(frame, eeg, ecg, cm, normalize) ==
    \/ \E i \in 1..Len(ecg) : is_text(column(frame, ecg[i]))
    \/ normalize /\ \E i \in 1..Len(eeg) : is_text(column(frame, eeg[i]))
    \/ normalize /\ cm # None /\ is_text(column(frame, cm))

\* The exit status of the process for each way main() can end: sys.exit(1)
\* (line 198), sys.exit(2) (line 216), an exception that leaves main()
\* (status 1), or a normal return (status 0)
exit_status(kind) ==
    CASE kind = "InputNotFound"   -> 1
      [] kind = "NoChannelsError" -> 2
      [] kind \in {"ParseError", "ValidationError", "BuildError", "ExportError"} -> 1
      [] OTHER -> 0

-----------------------------------------------------------------------------
(* Inputs *)

\* Bounds of the input families
MaxCols == 3        \* header length, pipeline specification
MaxRows == 1        \* table length, pipeline specification
MaxHdr == 5         \* header length, classification specification
MaxLen == 3         \* table length, data specification
MaxStride == 3      \* --downsample, data specification

\* The headers of 1..k distinct names drawn from a set of names
Headers(names, k) ==
    UNION {{h \in [1..n -> names] : \A i, j \in 1..n : h[i] = h[j] => i = j} : n \in 1..k}

\* The series of up to k values drawn from a set of values
SeriesUpTo(values, k) == UNION {[1..n -> values] : n \in 0..k}

\* A decoded file whose Time column (if any) counts the rows from 0 and whose
\* other columns all carry the series s
Table(h, s) ==
    [kind |-> "table", columns |-> h,
     rows |-> [i \in 1..Len(s) |->
                  [j \in 1..Len(h) |-> IF h[j] = TIME THEN Num(i - 1) ELSE s[i]]]]

\* A path at which nothing exists, and a file pd.read_csv cannot decode
Missing == [kind |-> "missing", columns |-> <<>>, rows |-> <<>>]
Unreadable == [kind |-> "unreadable", columns |-> <<>>, rows |-> <<>>]

Args(strides, flags) ==
    [downsample : strides, html_out : flags, no_ecg : flags, no_cm : flags,
     normalize : flags]

EmptyFrame == [columns |-> <<>>, rows |-> <<>>]

\* The state when main() is entered with arguments from A and a file from F
Start(F, A) ==
    /\ args \in A
    /\ file \in F
    /\ pc = "start"
    /\ df = EmptyFrame
    /\ eeg_channels = <<>>
    /\ ecg_channels = <<>>
    /\ cm_channel = None
    /\ fig = <<>>
    /\ stderr = <<>>
    /\ stdout = <<>>
    /\ exit_code = -1
    /\ html_written = FALSE
    /\ attempted = {}
    /\ error = "none"

-----------------------------------------------------------------------------
(* The steps of main() *)

Message(text, names) == [text |-> text, names |-> names]

\* The process ends: sys.exit(status), or an exception leaves main() and the
\* interpreter prints its traceback
Exit(kind, printed) ==
    /\ pc' = "done"
    /\ error' = kind
    /\ exit_code' = exit_status(kind)
    /\ stderr' = stderr \o printed

\* Mutant: the missing path is reported but the run goes on
InputNotFound_NoExit ==
    /\ pc = "start"
    /\ file.kind = "missing"
    /\ attempted' = attempted \cup {"exists"}
    /\ stderr' = Append(stderr, Message("CSV not found", <<>>))
    /\ pc' = "load"
    /\ UNCHANGED <<args, file, df, eeg_channels, ecg_channels, cm_channel, fig,
                   stdout, exit_code, html_written, error>>

\* main, lines 195-198: the path does not exist
InputNotFound ==
    /\ pc = "start"
    /\ file.kind = "missing"
    /\ attempted' = attempted \cup {"exists"}
    /\ Exit("InputNotFound", <<Message("CSV not found", <<>>)>>)
    /\ UNCHANGED <<args, file, df, eeg_channels, ecg_channels, cm_channel, fig,
                   stdout, html_written>>

\* main, lines 195-196: the path exists
PathExists ==
    /\ pc = "start"
    /\ file.kind # "missing"
    /\ attempted' = attempted \cup {"exists"}
    /\ pc' = "load"
    /\ UNCHANGED <<args, file, df, eeg_channels, ecg_channels, cm_channel, fig,
                   stderr, stdout, exit_code, html_written, error>>

\* load_data, lines 65-69: read_csv raises; the exception is printed, raised
\* again and leaves main()
LoadDataParseError ==
    /\ pc = "load"
    /\ file.kind # "table"
    /\ attempted' = attempted \cup {"parse"}
    /\ Exit("ParseError", <<Message("Failed to read CSV", <<>>),
                            Message("Traceback", <<>>)>>)
    /\ UNCHANGED <<args, file, df, eeg_channels, ecg_channels, cm_channel, fig,
                   stdout, html_written>>

\* Mutant: the table is returned without the Time check
LoadDataNoTime_Unvalidated ==
    /\ pc = "load"
    /\ file.kind = "table"
    /\ TIME \notin Elems(file.columns)
    /\ attempted' = attempted \cup {"parse", "downsample"}
    /\ df' = load_data(file, args.downsample)
    /\ pc' = "drop"
    /\ UNCHANGED <<args, file, eeg_channels, ecg_channels, cm_channel, fig,
                   stderr, stdout, exit_code, html_written, error>>

\* load_data, lines 75-76: no Time column; ValueError leaves main()
LoadDataNoTime ==
    /\ pc = "load"
    /\ file.kind = "table"
    /\ TIME \notin Elems(file.columns)
    /\ attempted' = attempted \cup {"parse", "downsample", "validate"}
    /\ Exit("ValidationError", <<Message("Traceback", <<>>)>>)
    /\ UNCHANGED <<args, file, df, eeg_channels, ecg_channels, cm_channel, fig,
                   stdout, html_written>>

\* load_data returns the (downsampled) table, line 200
LoadDataOk ==
    /\ pc = "load"
    /\ file.kind = "table"
    /\ TIME \in Elems(file.columns)
    /\ attempted' = attempted \cup {"parse", "downsample", "validate"}
    /\ df' = load_data(file, args.downsample)
    /\ pc' = "drop"
    /\ UNCHANGED <<args, file, eeg_channels, ecg_channels, cm_channel, fig,
                   stderr, stdout, exit_code, html_written, error>>

\* main, lines 202-205
DropColumns ==
    /\ pc = "drop"
    /\ attempted' = attempted \cup {"drop"}
    /\ df' = drop_ignored(df)
    /\ pc' = "detect"
    /\ UNCHANGED <<args, file, eeg_channels, ecg_channels, cm_channel, fig,
                   stderr, stdout, exit_code, html_written, error>>

\* main, lines 207-211
DetectChannels ==
    /\ pc = "detect"
    /\ attempted' = attempted \cup {"classify"}
    /\ eeg_channels' = detect_eeg(df.columns)
    /\ ecg_channels' = detect_ecg(df.columns, ~args.no_ecg)
    /\ cm_channel' = detect_cm(df.columns, ~args.no_cm)
    /\ pc' = "check"
    /\ UNCHANGED <<args, file, df, fig, stderr, stdout, exit_code, html_written,
                   error>>

\* main, line 213
no_channels == eeg_channels = <<>> /\ ecg_channels = <<>> /\ cm_channel = None

\* main, lines 213-216
NoChannels ==
    /\ pc = "check"
    /\ no_channels
    /\ Exit("NoChannelsError",
            <<Message("No plottable channels detected. Please check your CSV headers.",
                      <<>>),
              Message("Columns found:", df.columns)>>)
    /\ UNCHANGED <<args, file, df, eeg_channels, ecg_channels, cm_channel, fig,
                   stdout, html_written, attempted>>

\* main, line 218: build_figure returns the figure
BuildFigureOk ==
    /\ pc = "check"
    /\ ~no_channels
    /\ ~build_raises(df, eeg_channels, ecg_channels, cm_channel, args.normalize)
    /\ attempted' = attempted \cup {"build"}
    /\ fig' = build_figure(df, eeg_channels, ecg_channels, cm_channel, args.normalize)
    /\ pc' = "export"
    /\ UNCHANGED <<args, file, df, eeg_channels, ecg_channels, cm_channel, stderr,
                   stdout, exit_code, html_written, error>>

\* main, line 218: build_figure raises TypeError, which leaves main()
BuildFigureRaises ==
    /\ pc = "check"
    /\ ~no_channels
    /\ build_raises(df, eeg_channels, ecg_channels, cm_channel, args.normalize)
    /\ attempted' = attempted \cup {"build"}
    /\ Exit("BuildError", <<Message("Traceback", <<>>)>>)
    /\ UNCHANGED <<args, file, df, eeg_channels, ecg_channels, cm_channel, fig,
                   stdout, html_written>>

\* main, line 221: no --html-out
ExportSkipped ==
    /\ pc = "export"
    /\ ~args.html_out
    /\ pc' = "show"
    /\ UNCHANGED <<args, file, df, eeg_channels, ecg_channels, cm_channel, fig,
                   stderr, stdout, exit_code, html_written, attempted, error>>

\* main, lines 221-224: the document is written
ExportOk ==
    /\ pc = "export"
    /\ args.html_out
    /\ attempted' = attempted \cup {"export"}
    /\ html_written' = TRUE
    /\ stdout' = Append(stdout, Message("Saved interactive HTML to:", <<>>))
    /\ pc' = "show"
    /\ UNCHANGED <<args, file, df, eeg_channels, ecg_channels, cm_channel, fig,
                   stderr, exit_code, error>>

\* main, line 223: write_html raises (the path cannot be written); nothing
\* catches it
ExportRaises ==
    /\ pc = "export"
    /\ args.html_out
    /\ attempted' = attempted \cup {"export"}
    /\ Exit("ExportError", <<Message("Traceback", <<>>)>>)
    /\ UNCHANGED <<args, file, df, eeg_channels, ecg_channels, cm_channel, fig,
                   stdout, html_written>>

\* main, lines 226-227: the viewer opens and main() returns
ShowOk ==
    /\ pc = "show"
    /\ attempted' = attempted \cup {"show"}
    /\ pc' = "done"
    /\ exit_code' = exit_status("none")
    /\ UNCHANGED <<args, file, df, eeg_channels, ecg_channels, cm_channel, fig,
                   stderr, stdout, html_written, error>>

\* Mutant: the exception of fig.show() is not caught and leaves main()
ShowUncaught ==
    /\ pc = "show"
    /\ attempted' = attempted \cup {"show"}
    /\ pc' = "done"
    /\ error' = "ViewerLaunchError"
    /\ exit_code' = 1
    /\ stderr' = Append(stderr, Message("Traceback", <<>>))
    /\ UNCHANGED <<args, file, df, eeg_channels, ecg_channels, cm_channel, fig,
                   stdout, html_written>>

\* main, lines 226-230: fig.show() raises; the exception is caught, a hint is
\* printed and main() returns
ShowCaught ==
    /\ pc = "show"
    /\ attempted' = attempted \cup {"show"}
    /\ pc' = "done"
    /\ error' = "ViewerLaunchError"
    /\ exit_code' = exit_status("ViewerLaunchError")
    /\ stderr' = Append(stderr, Message("Unable to open viewer automatically:", <<>>))
    /\ stdout' = Append(stdout, Message("Tip: open the --html-out file in your browser.",
                                        <<>>))
    /\ UNCHANGED <<args, file, df, eeg_channels, ecg_channels, cm_channel, fig,
                   html_written>>

Next ==
    \/ InputNotFound
    \/ PathExists
    \/ LoadDataParseError
    \/ LoadDataNoTime
    \/ LoadDataOk
    \/ DropColumns
    \/ DetectChannels
    \/ NoChannels
    \/ BuildFigureOk
    \/ BuildFigureRaises
    \/ ExportSkipped
    \/ ExportOk
    \/ ExportRaises
    \/ ShowOk
    \/ ShowCaught

-----------------------------------------------------------------------------
(* Specifications: the same program on three families of inputs *)

Flags == BOOLEAN

\* Pipeline: every kind of file, short headers over the names below, every flag
PipelineNames == {TIME, TRIGGER, X3_AUX, FZ, X1_LEOG, CM}
PipelineFiles ==
    {Missing, Unreadable}
    \cup {Table(h, s) : h \in Headers(PipelineNames, MaxCols),
                        s \in SeriesUpTo({Num(1), Txt}, MaxRows)}

Init == Start(PipelineFiles, Args({1}, Flags))
Spec == Init /\ [][Next]_vars

\* Classification: long headers in every order, no rows
ClassifyNames == {TIME, FZ, CZ, X1_LEOG, X2_REOG, CM}
DropNames == {TIME, TRIGGER, X3_AUX, X3_AUX2_LOWER, FZ, CM}
ClassifyFiles ==
    {Table(h, <<>>) : h \in Headers(ClassifyNames, MaxHdr) \cup Headers(DropNames, MaxHdr)}
\* A few runs that take the branches the families above do not
OtherFiles ==
    {Missing, Unreadable, Table(<<FZ>>, <<>>), Table(<<TIME>>, <<>>),
     Table(<<TIME, FZ>>, <<>>), Table(<<TIME, X1_LEOG>>, <<Txt>>)}

InitClassify ==
    \/ Start(ClassifyFiles, [downsample : {1}, html_out : {FALSE}, no_ecg : Flags,
                              no_cm : Flags, normalize : {FALSE}])
    \/ Start(OtherFiles, Args({1}, Flags))
SpecClassify == InitClassify /\ [][Next]_vars

\* Data: one signal column (or one of each group) carrying every short series
DataValues == {Num(-1), Num(0), Num(2), NaN, Txt}
DataHeaders == {<<TIME, FZ>>, <<TIME, X1_LEOG>>, <<TIME, CM>>, <<TIME, FZ, X1_LEOG, CM>>}
DataFiles ==
    {Table(h, s) : h \in DataHeaders, s \in SeriesUpTo(DataValues, MaxLen)}

InitData ==
    \/ Start(DataFiles, [downsample : 0..MaxStride, html_out : {FALSE}, no_ecg : {FALSE},
                         no_cm : {FALSE}, normalize : Flags])
    \/ Start(OtherFiles, Args({1}, Flags))
SpecData == InitData /\ [][Next]_vars

-----------------------------------------------------------------------------
(* Properties *)

Unrecoverable == {"InputNotFound", "ParseError", "ValidationError"}

\* build_figure has returned in this run
Built == "build" \in attempted /\ error # "BuildError"

\* detect_channels has returned in this run
Classified == "classify" \in attempted

\* The series a trace was made from, as minmax_normalize receives it
Input(t) ==
    IF t.group = "ecg" THEN series_mul(column(df, t.ch), Num(1000))
    ELSE column(df, t.ch)

Traces == {fig[i] : i \in 1..Len(fig)}

\* C1 (as stated): each of InputNotFound, ParseError and ValidationError ends
\* the process with a non-zero exit code, and the three codes are pairwise
\* distinct: the code a run ends with is the code of no other of the three.
C1_DistinctExitCodes ==
    pc = "done" /\ error \in Unrecoverable =>
        /\ exit_code # 0
        /\ \A other \in Unrecoverable \ {error} : exit_status(other) # exit_code

\* C1 (amended): a missing path, an undecodable file and a table without a
\* Time column each end the run at the step that meets them, with exit code 1:
\* non-zero, and different from the zero-channel code 2 and from success.
C1_UnrecoverableExitOne ==
    /\ file.kind = "missing" /\ pc # "start" =>
           pc = "done" /\ error = "InputNotFound" /\ exit_code = 1
    /\ file.kind = "unreadable" /\ pc \notin {"start", "load"} =>
           pc = "done" /\ error = "ParseError" /\ exit_code = 1
    /\ file.kind = "table" /\ TIME \notin Elems(file.columns)
         /\ pc \notin {"start", "load"} =>
           pc = "done" /\ error = "ValidationError" /\ exit_code = 1
    /\ pc = "done" /\ error \in Unrecoverable => exit_code \notin {0, 2}

C1_Witness ==
    /\ pc = "done" /\ error = "ValidationError" /\ exit_code = 1
    /\ file.kind = "table" /\ FZ \in Elems(file.columns)

\* C2 (as stated): when classification finds no EEG, no ECG and no reference
\* channel, the run ends with the NoChannelsError exit code, which is not the
\* missing-path code, and a diagnostic message lists every column name of the
\* input table.
C2_NoChannelsListsAllColumns ==
    pc = "done" /\ Classified /\ no_channels =>
        /\ error = "NoChannelsError"
        /\ exit_code = 2
        /\ exit_code # exit_status("InputNotFound")
        /\ \E i \in 1..Len(stderr) : Elems(stderr[i].names) = Elems(file.columns)

\* C3: when the input path does not exist, the run ends with the InputNotFound
\* exit code and no step after the existence check is ever started: nothing is
\* parsed, dropped, classified, built, exported or displayed.
C3_MissingPathStopsRun ==
    file.kind = "missing" =>
        /\ attempted \subseteq {"exists"}
        /\ pc \in {"start", "done"}
        /\ pc = "done" => exit_code = 1 /\ error = "InputNotFound"
        /\ df = EmptyFrame /\ fig = <<>> /\ ~html_written
        /\ eeg_channels = <<>> /\ ecg_channels = <<>> /\ cm_channel = None

C3_Witness ==
    file.kind = "missing" /\ pc = "done" /\ attempted = {"exists"} /\ Len(stderr) = 1

C5_Downsample ==
    pc = "drop" /\ args.downsample >= 1 =>
        LET R == Len(file.rows)
            N == args.downsample
        IN  /\ df.columns = file.columns
            /\ Len(df.rows) = (R + N - 1) \div N
            /\ \A k \in 1..Len(df.rows) :
                   /\ df.rows[k] = file.rows[(k - 1) * N + 1]
                   /\ column(df, TIME)[k] = Num((k - 1) * N)
            /\ N = 1 => df.rows = file.rows

C5_Witness ==
    /\ pc = "drop" /\ args.downsample = 2
    /\ Len(file.rows) = 3 /\ Len(df.rows) = 2
    /\ column(df, TIME) = <<Num(0), Num(2)>>

\* The position of a label in the candidate list
candidate_index(c) == CHOOSE i \in 1..Len(EEG_CANDIDATES) : EEG_CANDIDATES[i] = c

\* C6: for every header, in any order, and every pair of inclusion flags,
\* the EEG group is the candidate labels that are present, in the order of
\* the 21-label candidate list; the ECG group is empty when ECG is excluded
\* and otherwise X1:LEOG then X2:REOG, each if present; the reference is CM
\* when it is included and present, and none otherwise.  For the columns
\* Time, Fz, Cz, X1:LEOG, CM and default flags: [Fz, Cz], [X1:LEOG], CM.
C6_DetectChannels ==
    Classified =>
        LET cols == Elems(df.columns) IN
        /\ Len(EEG_CANDIDATES) = 21
        /\ Elems(eeg_channels) = Elems(EEG_CANDIDATES) \cap cols
        /\ \A i, j \in 1..Len(eeg_channels) :
               i < j => candidate_index(eeg_channels[i]) < candidate_index(eeg_channels[j])
        /\ args.no_ecg => ecg_channels = <<>>
        /\ ~args.no_ecg =>
               /\ Elems(ecg_channels) = {X1_LEOG, X2_REOG} \cap cols
               /\ Len(ecg_channels) = Cardinality({X1_LEOG, X2_REOG} \cap cols)
               /\ Len(ecg_channels) = 2 => ecg_channels = <<X1_LEOG, X2_REOG>>
        /\ cm_channel = IF ~args.no_cm /\ CM \in cols THEN CM ELSE None
        /\ Elems(file.columns) = {TIME, FZ, CZ, X1_LEOG, CM}
             /\ ~args.no_ecg /\ ~args.no_cm =>
               /\ eeg_channels = <<FZ, CZ>>
               /\ ecg_channels = <<X1_LEOG>>
               /\ cm_channel = CM

C6_Witness ==
    /\ Classified
    /\ file.columns = <<CM, X1_LEOG, CZ, FZ, TIME>>
    /\ ~args.no_ecg /\ ~args.no_cm
    /\ eeg_channels = <<FZ, CZ>> /\ ecg_channels = <<X1_LEOG>> /\ cm_channel = CM

\* A name the drop policy covers: one of the six fixed names, or a name that
\* begins with X3: in either case of the X
Droppable(c) ==
    \/ c \in IGNORE_EXACT
    \/ Len(c) >= 3 /\ c[1] \in {"X", "x"} /\ c[2] = "3" /\ c[3] = ":"

\* The names returned in the three groups
Returned ==
    Elems(eeg_channels) \cup Elems(ecg_channels)
    \cup (IF cm_channel = None THEN {} ELSE {cm_channel})

\* C7: whatever the header and the flags, after the drop no retained column
\* is one the drop policy covers and every other column is retained, in
\* order; dropping again changes nothing; no dropped column is returned in a
\* group; the three groups are disjoint; and Fz, when present, is returned as
\* EEG.
C7_ColumnDrop ==
    /\ "drop" \in attempted =>
           /\ \A c \in Elems(df.columns) : ~Droppable(c)
           /\ df.columns = SelectSeq(file.columns, LAMBDA c : ~Droppable(c))
           /\ drop_ignored(df) = df
    /\ Classified =>
           /\ \A c \in Returned : ~Droppable(c) /\ c \in Elems(df.columns)
           /\ Elems(eeg_channels) \cap Elems(ecg_channels) = {}
           /\ cm_channel \notin Elems(eeg_channels) \cup Elems(ecg_channels)
           /\ FZ \in Elems(file.columns) => FZ \in Elems(eeg_channels)

C7_Witness ==
    /\ Classified
    /\ Elems(file.columns) = {TIME, TRIGGER, X3_AUX, X3_AUX2_LOWER, FZ}
    /\ Elems(df.columns) = {TIME, FZ}
    /\ eeg_channels = <<FZ>> /\ ecg_channels = <<>> /\ cm_channel = None

\* A series that is empty, all missing, or whose maximum equals its minimum
Degenerate(series) ==
    \/ series = <<>>
    \/ \A i \in 1..Len(series) : isna(series[i])
    \/ series_max(series) = series_min(series)

\* C8 (as stated): for every series that is empty, all missing or constant,
\* minmax_normalize returns a series of the same length whose every value is
\* 0, never a missing value.
C8_DegenerateGivesZeros ==
    Built /\ args.normalize =>
        \A t \in Traces :
            Degenerate(Input(t)) =>
                /\ Len(t.y) = Len(Input(t))
                /\ \A i \in 1..Len(t.y) : t.y[i] = Num(0)

\* C9: for every numeric series with two different non-missing values,
\* minmax_normalize maps each non-missing v to 2*(v - min)/(max - min) - 1 and
\* leaves missing values missing, so the result has minimum exactly -1,
\* maximum exactly 1 and every non-missing value within [-1, 1].
C9_NormalizeRange ==
    Built /\ args.normalize =>
        \A t \in Traces :
            Cardinality(Present(Input(t))) >= 2 =>
                LET x == Input(t)
                    lo == series_min(x).n
                    hi == series_max(x).n
                IN  /\ Len(t.y) = Len(x)
                    /\ \A i \in 1..Len(x) :
                           /\ isna(x[i]) => isna(t.y[i])
                           /\ ~isna(x[i]) =>
                                  /\ t.y[i].k = "num"
                                  /\ t.y[i].n * (hi - lo)
                                       = (2 * (x[i].n - lo) - (hi - lo)) * t.y[i].d
                                  /\ fle(Num(-1), t.y[i]) /\ fle(t.y[i], Num(1))
                    /\ series_min(t.y) = Num(-1)
                    /\ series_max(t.y) = Num(1)

C9_Witness ==
    /\ Built /\ args.normalize
    /\ \E t \in Traces :
           /\ column(df, t.ch) = <<Num(-1), Num(0), Num(2)>>
           /\ t.y = <<Num(-1), [k |-> "num", n |-> -1, d |-> 3], Num(1)>>

\* C10: every ECG value is multiplied by 1000 before anything else: without
\* normalization the trace holds raw * 1000 and is named "<channel> (µV)";
\* with normalization it is named "<channel> (norm)", lies within [-1, 1], and
\* is all zeros when every raw value is the same number.  EEG and reference
\* traces are never converted: without normalization they hold the raw
\* column under the bare channel name, with it they are named
\* "<channel> (norm)".
C10_UnitsThenNormalize ==
    Built =>
        \A t \in Traces :
            LET raw == column(df, t.ch) IN
            /\ Len(t.y) = Len(raw)
            /\ t.name = IF args.normalize
                        THEN t.ch \o <<" ", "(", "n", "o", "r", "m", ")">>
                        ELSE IF t.group = "ecg"
                             THEN t.ch \o <<" ", "(", "µ", "V", ")">>
                             ELSE t.ch
            /\ t.group = "ecg" /\ ~args.normalize =>
                   \A i \in 1..Len(raw) :
                       t.y[i] = IF isna(raw[i]) THEN NaN ELSE Num(1000 * raw[i].n)
            /\ t.group = "ecg" /\ args.normalize =>
                   /\ \A i \in 1..Len(raw) :
                          ~isna(t.y[i]) => fle(Num(-1), t.y[i]) /\ fle(t.y[i], Num(1))
                   /\ (\A i \in 1..Len(raw) : raw[i].k = "num" /\ raw[i] = raw[1]) =>
                          \A i \in 1..Len(raw) : t.y[i] = Num(0)
            /\ t.group # "ecg" /\ ~args.normalize => t.y = raw

C10_Witness ==
    /\ Built /\ ~args.normalize
    /\ \E t \in Traces :
           /\ t.group = "ecg"
           /\ column(df, t.ch) = <<Num(2), NaN, Num(-1)>>
           /\ t.y = <<Num(2000), NaN, Num(-1000)>>

====
